---- MODULE Spec2Model ----
(***************************************************************************)
(* VisionLint: IntegrityLinter.check (dataset scanner) and                 *)
(* IntegrityLinter.check_image_integrity (single-file checker), modelled   *)
(* from src/src/vision_lint/core/auditor.py.                               *)
(*                                                                         *)
(* Paths and file names are sequences of one-character strings, so that    *)
(* str.lower, str.startswith and str.endswith are computed character by    *)
(* character.  The two decoding libraries (PIL, OpenCV) are external: what *)
(* they do for a file is drawn from DecoderOutcomes at every call.         *)
(***************************************************************************)
EXTENDS Integers, Sequences, FiniteSets, TLC

\* ------------------------------------------------------------------ bounds
\* largest number of files os.walk discovers in one scan
MaxFiles == 2
\* largest number of direct check_image_integrity calls on one file
MaxCalls == 2

\* ------------------------------------------------------------ str methods
UpperAlpha == <<"A","B","C","D","E","F","G","H","I","J","K","L","M",
                "N","O","P","Q","R","S","T","U","V","W","X","Y","Z">>
LowerAlpha == <<"a","b","c","d","e","f","g","h","i","j","k","l","m",
                "n","o","p","q","r","s","t","u","v","w","x","y","z">>

\* one character of str.lower()
LowerChar(c) ==
    IF \E i \in 1..26 : UpperAlpha[i] = c
    THEN LowerAlpha[CHOOSE i \in 1..26 : UpperAlpha[i] = c]
    ELSE c

\* str.lower()
Lower(s) == [i \in 1..Len(s) |-> LowerChar(s[i])]

\* str.startswith(prefix)
StartsWith(s, prefix) ==
    /\ Len(prefix) <= Len(s)
    /\ SubSeq(s, 1, Len(prefix)) = prefix

\* str.endswith(suffix)
EndsWith(s, suffix) ==
    /\ Len(suffix) <= Len(s)
    /\ SubSeq(s, Len(s) - Len(suffix) + 1, Len(s)) = suffix

\* os.path.join(root, file) for a relative file name
Join(root, file) == root \o <<"/">> \o file

\* ------------------------------------------------- IntegrityLinter.__init__
supported_extensions ==
    { <<".","j","p","g">>, <<".","j","p","e","g">>, <<".","p","n","g">>,
      <<".","b","m","p">>, <<".","t","i","f","f">>, <<".","w","e","b","p">> }

\* the extension test without lower(): a case-sensitive match
HasSupportedExtension_CaseSensitive(s) ==
    \E ext \in supported_extensions : EndsWith(s, ext)

\* any(s.lower().endswith(ext) for ext in self.supported_extensions)
HasSupportedExtension(s) ==
    \E ext \in supported_extensions : EndsWith(Lower(s), ext)

ThumbsDb == <<"T","h","u","m","b","s",".","d","b">>

\* the skip test without the hidden-file half
IsSkipped_SystemOnly(file) == file = ThumbsDb

\* file.startswith('.') or file == 'Thumbs.db'
IsSkipped(file) == StartsWith(file, <<".">>) \/ file = ThumbsDb

\* the two renderings of the extension set that the messages embed; the
\* iteration order of a Python set of strings differs from process to process
SetReprs == { "{'.jpg', '.jpeg', '.png', '.bmp', '.tiff', '.webp'}",
              "{'.webp', '.tiff', '.bmp', '.png', '.jpeg', '.jpg'}" }

\* ------------------------------------------------------------- LintResult
LintResult(file_path, issue_type, severity, message) ==
    [ file_path   |-> file_path,
      linter_name |-> "IntegrityLinter",
      issue_type  |-> issue_type,
      severity    |-> severity,
      message     |-> message ]

\* ------------------------------------------------------------- exceptions
NoExc == [cls |-> "None", msg |-> ""]

\* the classes each exception is an instance of (IOError is OSError)
Bases ==
    [ c \in {"None", "FileNotFoundError", "OSError", "SyntaxError",
             "UnidentifiedImageError", "ValueError", "cv2.error",
             "UnicodeEncodeError"} |->
        CASE c = "None"                   -> {}
          [] c = "FileNotFoundError"      -> {"FileNotFoundError", "OSError", "Exception"}
          [] c = "OSError"                -> {"OSError", "Exception"}
          [] c = "SyntaxError"            -> {"SyntaxError", "Exception"}
          [] c = "UnidentifiedImageError" -> {"UnidentifiedImageError", "OSError", "Exception"}
          [] c = "ValueError"             -> {"ValueError", "Exception"}
          [] c = "cv2.error"              -> {"cv2.error", "Exception"}
          [] c = "UnicodeEncodeError"     -> {"UnicodeEncodeError", "ValueError", "Exception"} ]

\* except (classes) as e
Caught(e, classes) == Bases[e.cls] \cap classes # {}

\* os.path.getsize on a path whose stat fails (a dangling symlink)
GetsizeError == [cls |-> "FileNotFoundError", msg |-> "No such file or directory"]

\* what Image.open / Image.verify raise
PilRaises ==
    { [cls |-> "OSError",                msg |-> "image file is truncated"],
      [cls |-> "SyntaxError",            msg |-> "broken PNG file"],
      [cls |-> "UnidentifiedImageError", msg |-> "cannot identify image file"],
      [cls |-> "ValueError",             msg |-> "bad image mode"] }

\* what cv2.imread raises
CvRaises ==
    { [cls |-> "cv2.error",          msg |-> "OpenCV: failed to decode"],
      [cls |-> "UnicodeEncodeError", msg |-> "surrogates not allowed"] }

\* ---------------------------------------------------------- pixel buffers
\* a numpy array: its shape and its pixels in row-major order, a pixel being
\* the sequence of its channel values; isNone is cv2.imread returning None
NoneImg == [isNone |-> TRUE, shape |-> <<>>, data |-> <<>>]

Buffers ==
    { [isNone |-> FALSE, shape |-> <<1,2,3>>, data |-> << <<1,1,1>>, <<2,2,2>> >>],
      [isNone |-> FALSE, shape |-> <<1,2,3>>, data |-> << <<1,1,1>>, <<2,2,3>> >>],
      [isNone |-> FALSE, shape |-> <<1,2,3>>, data |-> << <<1,2,1>>, <<2,2,2>> >>],
      [isNone |-> FALSE, shape |-> <<1,2,3>>, data |-> << <<1,2,3>>, <<3,2,1>> >>],
      [isNone |-> FALSE, shape |-> <<1,2>>,   data |-> << <<1>>, <<2>> >>],
      [isNone |-> FALSE, shape |-> <<1,2,4>>, data |-> << <<1,1,1,1>>, <<2,2,2,2>> >>],
      [isNone |-> FALSE, shape |-> <<0,2,3>>, data |-> <<>>],
      [isNone |-> FALSE, shape |-> <<2,0,3>>, data |-> <<>>] }

RECURSIVE Product(_)
Product(s) == IF s = <<>> THEN 1 ELSE Head(s) * Product(Tail(s))

\* ndarray.size
Size(img) == Product(img.shape)

\* one plane of cv2.split(img)
Plane(img, k) == [i \in 1..Len(img.data) |-> img.data[i][k]]

\* str(img.shape): the repr of a tuple of ints
DigitStr(n) == <<"0","1","2","3","4","5","6","7","8","9">>[n + 1]
RECURSIVE ShapeItems(_)
ShapeItems(s) ==
    IF Len(s) = 1 THEN DigitStr(s[1])
    ELSE DigitStr(Head(s)) \o ", " \o ShapeItems(Tail(s))
ShapeRepr(s) == "(" \o ShapeItems(s) \o ")"

\* what the two libraries do with a readable, non-empty file at one call; a
\* library that raises leaves the later one without an outcome
DecoderOutcomes ==
    { [pil |-> p, cv |-> NoExc, img |-> NoneImg] : p \in PilRaises }
    \cup
    { [pil |-> NoExc, cv |-> c, img |-> NoneImg] : c \in CvRaises }
    \cup
    { [pil |-> NoExc, cv |-> NoExc, img |-> b] : b \in Buffers \cup {NoneImg} }

\* what the libraries do with a file of the given size: Image.open cannot
\* identify a zero-byte file and cannot open one whose stat fails
DecoderOutcomesFor(size) ==
    IF size = 0
    THEN { [pil |-> [cls |-> "UnidentifiedImageError", msg |-> "cannot identify image file"],
            cv |-> NoExc, img |-> NoneImg] }
    ELSE IF size < 0
    THEN { [pil |-> GetsizeError, cv |-> NoExc, img |-> NoneImg] }
    ELSE DecoderOutcomes

\* ------------------------------------ IntegrityLinter.check_image_integrity
\* the channel stage comparing only the first two planes
ChannelStage_TwoPlanes(file_path, img) ==
    IF Len(img.shape) = 3 /\ img.shape[3] = 3
    THEN IF Plane(img, 1) = Plane(img, 2)
         THEN [ ret |-> << LintResult(file_path, "Grayscale as RGB", "Warning",
                  "Image is encoded as RGB but all pixels are grayscale (R=G=B)") >>,
                trace |-> <<"getsize", "PIL", "imread", "split">>, raised |-> NoExc ]
         ELSE [ ret |-> <<>>,
                trace |-> <<"getsize", "PIL", "imread", "split">>, raised |-> NoExc ]
    ELSE [ ret |-> <<>>, trace |-> <<"getsize", "PIL", "imread">>, raised |-> NoExc ]

\* the degenerate-channel stage, lines 134-145
ChannelStage(file_path, img) ==
    IF Len(img.shape) = 3 /\ img.shape[3] = 3
    THEN IF Plane(img, 1) = Plane(img, 2) /\ Plane(img, 1) = Plane(img, 3)
         THEN [ ret |-> << LintResult(file_path, "Grayscale as RGB", "Warning",
                  "Image is encoded as RGB but all pixels are grayscale (R=G=B)") >>,
                trace |-> <<"getsize", "PIL", "imread", "split">>, raised |-> NoExc ]
         ELSE [ ret |-> <<>>,
                trace |-> <<"getsize", "PIL", "imread", "split">>, raised |-> NoExc ]
    ELSE [ ret |-> <<>>, trace |-> <<"getsize", "PIL", "imread">>, raised |-> NoExc ]

\* the outer handler written as: except OSError as e
OuterHandler_OSErrorOnly(file_path, e, trace) ==
    IF Caught(e, {"OSError"})
    THEN [ ret |-> << LintResult(file_path, "Unknown Error", "Critical",
                        "An unexpected error occurred: " \o e.msg) >>,
           trace |-> trace, raised |-> NoExc ]
    ELSE [ ret |-> <<>>, trace |-> trace, raised |-> e ]

\* the outer handler, lines 147-155: except Exception as e
OuterHandler(file_path, e, trace) ==
    IF Caught(e, {"Exception"})
    THEN [ ret |-> << LintResult(file_path, "Unknown Error", "Critical",
                        "An unexpected error occurred: " \o e.msg) >>,
           trace |-> trace, raised |-> NoExc ]
    ELSE [ ret |-> <<>>, trace |-> trace, raised |-> e ]

\* the decode stage appending the Zero Pixel Area Finding instead of
\* returning it, so that the channel stage still runs on the empty buffer
DecodeStage_ZeroAreaFallsThrough(file_path, dec) ==
    IF dec.cv # NoExc
    THEN IF Caught(dec.cv, {"cv2.error"})
         THEN [ ret |-> << LintResult(file_path, "Corrupted Image (OpenCV)", "Critical",
                             "OpenCV cannot decode image: " \o dec.cv.msg) >>,
                trace |-> <<"getsize", "PIL", "imread">>, raised |-> NoExc ]
         ELSE OuterHandler(file_path, dec.cv, <<"getsize", "PIL", "imread">>)
    ELSE IF dec.img.isNone
    THEN [ ret |-> << LintResult(file_path, "Corrupted Image (OpenCV)", "Critical",
                        "OpenCV cannot decode image (returned None)") >>,
           trace |-> <<"getsize", "PIL", "imread">>, raised |-> NoExc ]
    ELSE IF Size(dec.img) = 0 \/ dec.img.shape[1] = 0 \/ dec.img.shape[2] = 0
    THEN LET rest == ChannelStage(file_path, dec.img) IN
         [ ret |-> << LintResult(file_path, "Zero Pixel Area", "Critical",
                        "Image has invalid dimensions: " \o ShapeRepr(dec.img.shape)) >>
                   \o rest.ret,
           trace |-> rest.trace, raised |-> NoExc ]
    ELSE ChannelStage(file_path, dec.img)

\* the pixel-decode stage, lines 101-129, then the channel stage
DecodeStage(file_path, dec) ==
    IF dec.cv # NoExc
    THEN IF Caught(dec.cv, {"cv2.error"})
         THEN [ ret |-> << LintResult(file_path, "Corrupted Image (OpenCV)", "Critical",
                             "OpenCV cannot decode image: " \o dec.cv.msg) >>,
                trace |-> <<"getsize", "PIL", "imread">>, raised |-> NoExc ]
         ELSE OuterHandler(file_path, dec.cv, <<"getsize", "PIL", "imread">>)
    ELSE IF dec.img.isNone
    THEN [ ret |-> << LintResult(file_path, "Corrupted Image (OpenCV)", "Critical",
                        "OpenCV cannot decode image (returned None)") >>,
           trace |-> <<"getsize", "PIL", "imread">>, raised |-> NoExc ]
    ELSE IF Size(dec.img) = 0 \/ dec.img.shape[1] = 0 \/ dec.img.shape[2] = 0
    THEN [ ret |-> << LintResult(file_path, "Zero Pixel Area", "Critical",
                        "Image has invalid dimensions: " \o ShapeRepr(dec.img.shape)) >>,
           trace |-> <<"getsize", "PIL", "imread">>, raised |-> NoExc ]
    ELSE ChannelStage(file_path, dec.img)

\* the verification stage written as: except IOError as e
PilStage_IOErrorOnly(file_path, dec) ==
    IF dec.pil # NoExc
    THEN IF Caught(dec.pil, {"OSError"})
         THEN [ ret |-> << LintResult(file_path, "Corrupted Image (PIL)", "Critical",
                             "PIL cannot open/verify image: " \o dec.pil.msg) >>,
                trace |-> <<"getsize", "PIL">>, raised |-> NoExc ]
         ELSE OuterHandler(file_path, dec.pil, <<"getsize", "PIL">>)
    ELSE DecodeStage(file_path, dec)

\* the structural-verification stage, lines 88-99, then the later stages
PilStage(file_path, dec) ==
    IF dec.pil # NoExc
    THEN IF Caught(dec.pil, {"OSError", "SyntaxError", "UnidentifiedImageError"})
         THEN [ ret |-> << LintResult(file_path, "Corrupted Image (PIL)", "Critical",
                             "PIL cannot open/verify image: " \o dec.pil.msg) >>,
                trace |-> <<"getsize", "PIL">>, raised |-> NoExc ]
         ELSE OuterHandler(file_path, dec.pil, <<"getsize", "PIL">>)
    ELSE DecodeStage(file_path, dec)

\* check_image_integrity without the size stage
CheckImageIntegrity_NoSizeStage(file_path, size, dec) ==
    IF size < 0
    THEN OuterHandler(file_path, GetsizeError, <<"getsize">>)
    ELSE PilStage(file_path, dec)

\* check_image_integrity(file_path) on a file of the given size (-1: getsize
\* raises) when the libraries behave as dec says.  ret is the returned list,
\* trace the library calls made, raised an exception that leaves the call.
CheckImageIntegrity(file_path, size, dec) ==
    IF size < 0
    THEN OuterHandler(file_path, GetsizeError, <<"getsize">>)
    ELSE IF size = 0
    THEN [ ret |-> << LintResult(file_path, "Empty File", "Critical",
                        "File size is 0 bytes") >>,
           trace |-> <<"getsize">>, raised |-> NoExc ]
    ELSE PilStage(file_path, dec)

\* ------------------------------------------------------------ filesystem
\* the file names that occur
N_a_jpg  == <<"a",".","j","p","g">>
N_B_PNG  == <<"B",".","P","N","G">>
N_h_jpg  == <<".","h",".","j","p","g">>
N_n_txt  == <<"n",".","t","x","t">>
Names == {N_a_jpg, N_B_PNG, N_h_jpg, ThumbsDb, N_n_txt}

\* the directory handed to check and its one (hidden) subdirectory
TopDir == <<"d">>
SubDir == Join(TopDir, <<".","s">>)

\* st_size of a file; -1 stands for a file whose stat fails
Sizes == {-1, 0, 10}

\* a file as os.walk reports it: the directory it is in, its name, its size
WalkEntries == [root : {TopDir, SubDir}, file : Names, size : Sizes]

\* what os.walk(data_path) yields, flattened: the files of the top directory
\* before those of the subdirectory, no name twice in one directory
Walks ==
    { w \in UNION { [1..n -> WalkEntries] : n \in 0..MaxFiles } :
        /\ \A i, j \in 1..Len(w) :
              i < j => /\ ~(w[i].root = SubDir /\ w[j].root = TopDir)
                       /\ ~(w[i].root = w[j].root /\ w[i].file = w[j].file) }

\* kind: what os.path.exists / os.path.isfile see at data_path ("other" is an
\* existing path that is neither a regular file nor a directory)
FileSystems ==
    { [kind |-> "dir", data_path |-> TopDir, size |-> 0, entries |-> w] :
        w \in Walks }
    \cup
    { [kind |-> "file", data_path |-> Join(TopDir, n), size |-> s, entries |-> <<>>] :
        n \in Names, s \in {0, 10} }
    \cup
    { [kind |-> k, data_path |-> Join(TopDir, n), size |-> 0, entries |-> <<>>] :
        k \in {"missing", "other"}, n \in Names }

\* the paths a test hands to check_image_integrity directly
DirectFiles ==
    { [kind |-> "file", data_path |-> Join(TopDir, n), size |-> s, entries |-> <<>>] :
        n \in Names, s \in Sizes }

\* ------------------------------------------------------------------ state
VARIABLES
    fs,            \* the filesystem under data_path; never written
    pc,            \* where check() is: "start", "walk", "done", "raised"
    idx,           \* the next entry of the walk
    images_found,  \* local of check()
    results,       \* local of check()
    calls,         \* the check_image_integrity calls made so far
    returned       \* what check() returned

vars == <<fs, pc, idx, images_found, results, calls, returned>>

Init ==
    /\ fs \in FileSystems
    /\ pc = "start"
    /\ idx = 1
    /\ images_found = FALSE
    /\ results = <<>>
    /\ calls = <<>>
    /\ returned = <<>>

\* one call of check_image_integrity, as recorded in calls
Call(file_path, size, dec) ==
    [file_path |-> file_path, size |-> size, dec |-> dec]
        @@ CheckImageIntegrity(file_path, size, dec)

\* --------------------------------------------------- IntegrityLinter.check
\* check without the existence test: a missing path is walked
CheckPathMissing_Walks ==
    /\ pc = "start"
    /\ fs.kind = "missing"
    /\ images_found' = FALSE
    /\ pc' = "walk"
    /\ UNCHANGED <<fs, idx, results, calls, returned>>

\* lines 22-31: the path does not exist
CheckPathMissing ==
    /\ pc = "start"
    /\ fs.kind = "missing"
    /\ returned' = << LintResult(fs.data_path, "Path Error", "Critical",
                                 "Path does not exist") >>
    /\ pc' = "done"
    /\ UNCHANGED <<fs, idx, images_found, results, calls>>

\* lines 34-36: a single file with a supported extension
CheckSingleFile ==
    /\ pc = "start"
    /\ fs.kind = "file"
    /\ HasSupportedExtension(fs.data_path)
    /\ \E dec \in DecoderOutcomesFor(fs.size) :
          LET c == Call(fs.data_path, fs.size, dec) IN
          /\ calls' = Append(calls, c)
          /\ IF c.raised = NoExc
             THEN returned' = c.ret /\ pc' = "done"
             ELSE returned' = returned /\ pc' = "raised"
    /\ UNCHANGED <<fs, idx, images_found, results>>

\* lines 37-44: a single file with another extension
CheckSingleFileUnsupported ==
    /\ pc = "start"
    /\ fs.kind = "file"
    /\ ~HasSupportedExtension(fs.data_path)
    /\ \E repr \in SetReprs :
          returned' = << LintResult(fs.data_path, "No Images Found", "Critical",
                           "File extension not supported. Supported: " \o repr) >>
    /\ pc' = "done"
    /\ UNCHANGED <<fs, idx, images_found, results, calls>>

\* lines 46-47: anything else that exists is walked
CheckBeginWalk ==
    /\ pc = "start"
    /\ fs.kind \notin {"missing", "file"}
    /\ images_found' = FALSE
    /\ pc' = "walk"
    /\ UNCHANGED <<fs, idx, results, calls, returned>>

\* lines 48-52: a hidden or system file is skipped
WalkSkipHidden ==
    /\ pc = "walk"
    /\ idx <= Len(fs.entries)
    /\ IsSkipped(fs.entries[idx].file)
    /\ idx' = idx + 1
    /\ UNCHANGED <<fs, pc, images_found, results, calls, returned>>

\* line 54, condition false: a file with another extension is passed over
WalkSkipUnsupported ==
    /\ pc = "walk"
    /\ idx <= Len(fs.entries)
    /\ ~IsSkipped(fs.entries[idx].file)
    /\ ~HasSupportedExtension(fs.entries[idx].file)
    /\ idx' = idx + 1
    /\ UNCHANGED <<fs, pc, images_found, results, calls, returned>>

\* the loop body written as: results = file_results
WalkCheckImage_Overwrites ==
    /\ pc = "walk"
    /\ idx <= Len(fs.entries)
    /\ ~IsSkipped(fs.entries[idx].file)
    /\ HasSupportedExtension(fs.entries[idx].file)
    /\ images_found' = TRUE
    /\ \E dec \in DecoderOutcomesFor(fs.entries[idx].size) :
          LET e == fs.entries[idx]
              c == Call(Join(e.root, e.file), e.size, dec) IN
          /\ calls' = Append(calls, c)
          /\ IF c.raised = NoExc
             THEN results' = c.ret /\ pc' = pc /\ idx' = idx + 1
             ELSE results' = results /\ pc' = "raised" /\ idx' = idx
    /\ UNCHANGED <<fs, returned>>

\* lines 54-58: an image file is checked and its results appended
WalkCheckImage ==
    /\ pc = "walk"
    /\ idx <= Len(fs.entries)
    /\ ~IsSkipped(fs.entries[idx].file)
    /\ HasSupportedExtension(fs.entries[idx].file)
    /\ images_found' = TRUE
    /\ \E dec \in DecoderOutcomesFor(fs.entries[idx].size) :
          LET e == fs.entries[idx]
              c == Call(Join(e.root, e.file), e.size, dec) IN
          /\ calls' = Append(calls, c)
          /\ IF c.raised = NoExc
             THEN results' = results \o c.ret /\ pc' = pc /\ idx' = idx + 1
             ELSE results' = results /\ pc' = "raised" /\ idx' = idx
    /\ UNCHANGED <<fs, returned>>

\* the end of the walk without the images_found test, as audit_dataset has it
WalkReturnNoImages_Unflagged ==
    /\ pc = "walk"
    /\ idx > Len(fs.entries)
    /\ ~images_found
    /\ returned' = results
    /\ pc' = "done"
    /\ UNCHANGED <<fs, idx, images_found, results, calls>>

\* lines 60-67: the walk is over and no image was seen
WalkReturnNoImages ==
    /\ pc = "walk"
    /\ idx > Len(fs.entries)
    /\ ~images_found
    /\ \E repr \in SetReprs :
          returned' = << LintResult(fs.data_path, "No Images Found", "Critical",
                           "No image files found with extensions " \o repr) >>
    /\ pc' = "done"
    /\ UNCHANGED <<fs, idx, images_found, results, calls>>

\* line 69: the walk is over and the accumulated results are returned
WalkReturnResults ==
    /\ pc = "walk"
    /\ idx > Len(fs.entries)
    /\ images_found
    /\ returned' = results
    /\ pc' = "done"
    /\ UNCHANGED <<fs, idx, images_found, results, calls>>

Next ==
    \/ CheckPathMissing
    \/ CheckSingleFile
    \/ CheckSingleFileUnsupported
    \/ CheckBeginWalk
    \/ WalkSkipHidden
    \/ WalkSkipUnsupported
    \/ WalkCheckImage
    \/ WalkReturnNoImages
    \/ WalkReturnResults

Spec == Init /\ [][Next]_vars

\* ------------------------ check_image_integrity called directly on one file
InitFile ==
    /\ fs \in DirectFiles
    /\ pc = "start"
    /\ idx = 1
    /\ images_found = FALSE
    /\ results = <<>>
    /\ calls = <<>>
    /\ returned = <<>>

\* one direct call (tests/test_auditor.py, lines 64-84); the file is unchanged
DirectCall ==
    /\ Len(calls) < MaxCalls
    /\ \E dec \in DecoderOutcomesFor(fs.size) :
          calls' = Append(calls, Call(fs.data_path, fs.size, dec))
    /\ UNCHANGED <<fs, pc, idx, images_found, results, returned>>

NextFile == DirectCall

SpecFile == InitFile /\ [][NextFile]_vars

\* =================================================================== claims
\* Vocabulary of the claims, written without the operators of the code.

\* the last component of a path
Basename(path) ==
    LET slashes == {i \in 1..Len(path) : path[i] = "/"}
        last == IF slashes = {} THEN 0
                ELSE CHOOSE i \in slashes : \A j \in slashes : j <= i
    IN SubSeq(path, last + 1, Len(path))

\* a hidden file or the system file Thumbs.db
HiddenOrSystem(name) ==
    \/ name # <<>> /\ name[1] = "."
    \/ name = <<"T","h","u","m","b","s",".","d","b">>

\* the names of Names that carry an allow-listed extension, in any case
AllowListedNames == {N_a_jpg, N_B_PNG, N_h_jpg}

\* a file the scan has to check
Eligible(name) == name \in AllowListedNames /\ ~HiddenOrSystem(name)

\* the positions of the eligible files of the walk, in discovery order
EligibleIdx == {i \in DOMAIN fs.entries : Eligible(fs.entries[i].file)}

\* the path of the i-th file of the walk
EntryPath(i) == fs.entries[i].root \o <<"/">> \o fs.entries[i].file

RECURSIVE ConcatRets(_)
\* the returned lists of a sequence of calls, concatenated
ConcatRets(cs) ==
    IF cs = <<>> THEN <<>> ELSE Head(cs).ret \o ConcatRets(Tail(cs))

RECURSIVE Ascending(_)
\* a finite set of integers as the ascending sequence of its elements
Ascending(S) ==
    IF S = {} THEN <<>>
    ELSE LET m == CHOOSE x \in S : \A y \in S : x <= y
         IN <<m>> \o Ascending(S \ {m})

\* the files that exist under the path handed to check: path and name
ExistingFiles ==
    IF fs.kind = "file" THEN { [path |-> fs.data_path, name |-> Basename(fs.data_path)] }
    ELSE { [path |-> EntryPath(i), name |-> fs.entries[i].file] : i \in DOMAIN fs.entries }

\* no Finding and no check_image_integrity call is about the path
NeverReported(path) ==
    /\ \A k \in DOMAIN results  : results[k].file_path # path
    /\ \A k \in DOMAIN returned : returned[k].file_path # path
    /\ \A k \in DOMAIN calls    : calls[k].file_path # path

\* ----------------------------------------------------------------------- C1
\* C1 as stated: whatever path is handed to check, a directory or a single
\* file, a hidden file or a file named Thumbs.db is in no Finding and is
\* never checked.
C1_Original ==
    \A f \in ExistingFiles : HiddenOrSystem(f.name) => NeverReported(f.path)

\* C1 amended: in the scan of a directory, a hidden file or a file named
\* Thumbs.db of the subtree is in no Finding, is never handed to
\* check_image_integrity, and images_found is only set by an eligible file.
C1_HiddenSkippedInDirectoryScan ==
    fs.kind = "dir" =>
        /\ \A f \in ExistingFiles : HiddenOrSystem(f.name) => NeverReported(f.path)
        /\ images_found => \E i \in EligibleIdx : i < idx

\* a finished directory scan with an empty hidden image, which would fail the
\* size check, next to an eligible file that produced a Finding
C1_Witness ==
    /\ pc = "done"
    /\ fs.kind = "dir"
    /\ \E i \in DOMAIN fs.entries :
          /\ fs.entries[i].file = N_h_jpg
          /\ fs.entries[i].size = 0
    /\ EligibleIdx # {}
    /\ returned # <<>>

\* ----------------------------------------------------------------------- C2
\* C2: a directory without an eligible file yields exactly one Finding, No
\* Images Found, Critical, about the input path; and a No Images Found
\* Finding is never returned together with another Finding.
C2_NoImagesFound ==
    /\ (pc = "done" /\ fs.kind = "dir" /\ EligibleIdx = {}) =>
          /\ Len(returned) = 1
          /\ returned[1].issue_type = "No Images Found"
          /\ returned[1].severity = "Critical"
          /\ returned[1].file_path = fs.data_path
    /\ \A k \in DOMAIN returned :
          returned[k].issue_type = "No Images Found" => Len(returned) = 1
    /\ \A k \in DOMAIN results : results[k].issue_type # "No Images Found"

\* a finished scan of a directory that holds only ineligible files, one of
\* them a hidden file with an image extension
C2_Witness ==
    /\ pc = "done"
    /\ fs.kind = "dir"
    /\ Len(fs.entries) >= 2
    /\ EligibleIdx = {}
    /\ \E i \in DOMAIN fs.entries : fs.entries[i].file = N_h_jpg
    /\ returned[1].issue_type = "No Images Found"

\* ----------------------------------------------------------------------- C3
\* the exception that no stage of the call handles, NoExc if there is none
Unhandled(c) ==
    IF c.size < 0 THEN [cls |-> "FileNotFoundError", msg |-> "No such file or directory"]
    ELSE IF c.size = 0 THEN NoExc
    ELSE IF c.dec.pil # NoExc
    THEN IF c.dec.pil.cls \in {"OSError", "SyntaxError", "UnidentifiedImageError"}
         THEN NoExc ELSE c.dec.pil
    ELSE IF c.dec.cv # NoExc /\ c.dec.cv.cls # "cv2.error" THEN c.dec.cv
    ELSE NoExc

\* C3: no exception leaves check_image_integrity; an exception that no stage
\* handles becomes exactly one Critical Unknown Error Finding that carries
\* the exception's string; the call always returns a list.
C3_NeverPropagates ==
    \A k \in DOMAIN calls :
        LET c == calls[k] IN
        /\ c.raised = NoExc
        /\ c.ret \in Seq({c.ret[i] : i \in DOMAIN c.ret})
        /\ Unhandled(c) # NoExc =>
              c.ret = << [ file_path   |-> c.file_path,
                           linter_name |-> "IntegrityLinter",
                           issue_type  |-> "Unknown Error",
                           severity    |-> "Critical",
                           message     |-> "An unexpected error occurred: "
                                               \o Unhandled(c).msg ] >>

\* a call on a non-empty file in which Image.open raised a ValueError, which
\* the verification stage does not handle
C3_Witness ==
    \E k \in DOMAIN calls :
        /\ calls[k].size > 0
        /\ calls[k].dec.pil.cls = "ValueError"
        /\ calls[k].ret[1].issue_type = "Unknown Error"

\* ----------------------------------------------------------------------- C4
\* the Finding a stage makes of an exception
FaultFinding(c, issue_type, prefix, e) ==
    [ file_path   |-> c.file_path,
      linter_name |-> "IntegrityLinter",
      issue_type  |-> issue_type,
      severity    |-> "Critical",
      message     |-> prefix \o e.msg ]

\* C4 as stated: on a non-empty file, whatever Image.open / verify raise
\* becomes exactly one Critical Corrupted Image (PIL) Finding with the error
\* text, and neither the decode nor the channel stage runs.
C4_Original ==
    \A k \in DOMAIN calls :
        LET c == calls[k] IN
        (c.size > 0 /\ c.dec.pil # NoExc) =>
            /\ c.ret = << FaultFinding(c, "Corrupted Image (PIL)",
                             "PIL cannot open/verify image: ", c.dec.pil) >>
            /\ c.trace = <<"getsize", "PIL">>

\* C4 amended: on a non-empty file, an OSError (IOError), SyntaxError or
\* UnidentifiedImageError of Image.open / verify becomes exactly one Critical
\* Corrupted Image (PIL) Finding with the error text; any other exception of
\* that stage becomes exactly one Critical Unknown Error Finding with the
\* error text; in both cases neither the decode nor the channel stage runs.
C4_PilFailureShortCircuits ==
    \A k \in DOMAIN calls :
        LET c == calls[k] IN
        (c.size > 0 /\ c.dec.pil # NoExc) =>
            /\ c.trace = <<"getsize", "PIL">>
            /\ c.raised = NoExc
            /\ IF c.dec.pil.cls \in {"OSError", "SyntaxError", "UnidentifiedImageError"}
               THEN c.ret = << FaultFinding(c, "Corrupted Image (PIL)",
                                  "PIL cannot open/verify image: ", c.dec.pil) >>
               ELSE c.ret = << FaultFinding(c, "Unknown Error",
                                  "An unexpected error occurred: ", c.dec.pil) >>

\* a call on a non-empty file in which verification raised a SyntaxError
C4_Witness ==
    \E k \in DOMAIN calls :
        /\ calls[k].size > 0
        /\ calls[k].dec.pil.cls = "SyntaxError"
        /\ calls[k].ret[1].issue_type = "Corrupted Image (PIL)"

\* ----------------------------------------------------------------------- C5
\* C5: a zero-byte file yields exactly one Finding, Empty File, Critical;
\* neither library is called; every further call on the unchanged file
\* returns the identical list.
C5_EmptyFile ==
    \A k \in DOMAIN calls :
        LET c == calls[k] IN
        c.size = 0 =>
            /\ Len(c.ret) = 1
            /\ c.ret[1].issue_type = "Empty File"
            /\ c.ret[1].severity = "Critical"
            /\ c.ret[1].file_path = c.file_path
            /\ c.trace = <<"getsize">>
            /\ \A j \in DOMAIN calls :
                  calls[j].file_path = c.file_path => calls[j].ret = c.ret

\* two calls on the same zero-byte file with an image extension
C5_Witness ==
    /\ Len(calls) >= 2
    /\ calls[1].size = 0
    /\ calls[2].file_path = calls[1].file_path
    /\ Basename(calls[1].file_path) \in AllowListedNames

\* ----------------------------------------------------------------------- C6
\* the call passed the size, verification and decode stages
PassedStages123(c) ==
    /\ c.size > 0
    /\ c.dec.pil = NoExc
    /\ c.dec.cv = NoExc
    /\ ~c.dec.img.isNone
    /\ \A i \in DOMAIN c.dec.img.shape : c.dec.img.shape[i] # 0

\* the decoded buffer has exactly three channels, equal at every pixel
GrayscaleAsRGB(img) ==
    /\ Len(img.shape) = 3
    /\ img.shape[3] = 3
    /\ \A i \in DOMAIN img.data : img.data[i][1] = img.data[i][2]
                                  /\ img.data[i][2] = img.data[i][3]

\* C6: a file that passes stages 1-3 yields exactly one Finding, Grayscale as
\* RGB, Warning, if its buffer has exactly three channels that are equal at
\* every pixel, and the empty list otherwise; the Warning is never returned
\* for a file on which one of stages 1-3 produced a Finding.
C6_GrayscaleWarning ==
    \A k \in DOMAIN calls :
        LET c == calls[k] IN
        /\ PassedStages123(c) =>
              IF GrayscaleAsRGB(c.dec.img)
              THEN /\ Len(c.ret) = 1
                   /\ c.ret[1].issue_type = "Grayscale as RGB"
                   /\ c.ret[1].severity = "Warning"
                   /\ c.ret[1].file_path = c.file_path
              ELSE c.ret = <<>>
        /\ \A i \in DOMAIN c.ret :
              c.ret[i].issue_type = "Grayscale as RGB" =>
                  PassedStages123(c) /\ Len(c.ret) = 1

\* one call that returned the Warning and one on a colour image that
\* returned the empty list
C6_Witness ==
    /\ \E k \in DOMAIN calls :
          PassedStages123(calls[k]) /\ Len(calls[k].ret) = 1
    /\ \E k \in DOMAIN calls :
          /\ PassedStages123(calls[k])
          /\ Len(calls[k].dec.img.shape) = 3
          /\ calls[k].ret = <<>>

\* ----------------------------------------------------------------------- C7
\* C7: a path that does not exist yields exactly one Finding: Path Error,
\* Critical, about the input path, "Path does not exist"; nothing is walked
\* and no file is checked.
C7_PathError ==
    fs.kind = "missing" =>
        /\ pc \in {"start", "done"}
        /\ calls = <<>>
        /\ idx = 1
        /\ pc = "done" =>
              returned = << [ file_path   |-> fs.data_path,
                              linter_name |-> "IntegrityLinter",
                              issue_type  |-> "Path Error",
                              severity    |-> "Critical",
                              message     |-> "Path does not exist" ] >>

\* check has returned for a path that does not exist
C7_Witness == pc = "done" /\ fs.kind = "missing" /\ Len(returned) = 1

\* ----------------------------------------------------------------------- C8
\* C8: for a single file whose name ends, in any case, with an allow-listed
\* extension, check returns what check_image_integrity returns for that
\* path; for any other single file it returns exactly one Critical No Images
\* Found Finding and check_image_integrity is not called.
C8_SingleFile ==
    (pc = "done" /\ fs.kind = "file") =>
        IF Basename(fs.data_path) \in AllowListedNames
        THEN /\ Len(calls) = 1
             /\ calls[1].file_path = fs.data_path
             /\ calls[1].size = fs.size
             /\ returned = calls[1].ret
        ELSE /\ calls = <<>>
             /\ Len(returned) = 1
             /\ returned[1].issue_type = "No Images Found"
             /\ returned[1].severity = "Critical"
             /\ returned[1].file_path = fs.data_path

\* check has returned the empty list for the single clean image B.PNG
C8_Witness ==
    /\ pc = "done"
    /\ fs.kind = "file"
    /\ Basename(fs.data_path) = N_B_PNG
    /\ Len(calls) = 1
    /\ returned = <<>>

\* ----------------------------------------------------------------------- C9
\* C9 as stated: over all files and decoder outcomes, check_image_integrity
\* has a result with no Finding, one with exactly one Finding and one with
\* two or more Findings.
C9_Original ==
    LET Rets == { CheckImageIntegrity(fs.data_path, s, dec).ret :
                    s \in Sizes, dec \in DecoderOutcomes }
    IN /\ \E r \in Rets : Len(r) = 0
       /\ \E r \in Rets : Len(r) = 1
       /\ \E r \in Rets : Len(r) >= 2

\* C9 amended: check_image_integrity returns no Finding or exactly one
\* Finding, never two or more, every Finding being about the file checked;
\* the directory scan appends every returned Finding of every file checked.
C9_AtMostOneFindingPerFile ==
    /\ \A k \in DOMAIN calls :
          /\ Len(calls[k].ret) <= 1
          /\ \A i \in DOMAIN calls[k].ret :
                calls[k].ret[i].file_path = calls[k].file_path
    /\ pc = "walk" => results = ConcatRets(calls)

\* a walk that has checked one file without a Finding and one with a Finding
C9_Witness ==
    /\ pc = "walk"
    /\ \E k \in DOMAIN calls : Len(calls[k].ret) = 0
    /\ \E k \in DOMAIN calls : Len(calls[k].ret) = 1
    /\ Len(results) = 1

\* ---------------------------------------------------------------------- C10
\* the paths of the eligible files among the first n files of the walk, in
\* discovery order
EligiblePathsBefore(n) ==
    LET idxs == Ascending({i \in EligibleIdx : i < n})
    IN [k \in 1..Len(idxs) |-> EntryPath(idxs[k])]

\* where the scan of a directory stands: no exception has ended it; it can
\* always take its next step; the files handed to check_image_integrity are
\* the eligible files discovered so far, once each and in discovery order;
\* and when it has returned for a directory with an eligible file, every file
\* of the walk has been visited and the returned list is the concatenation
\* of the per-file results
C10_Progress ==
    fs.kind = "dir" =>
        /\ pc # "raised"
        /\ pc = "walk" => ENABLED Next
        /\ pc \in {"walk", "done"} =>
              [k \in DOMAIN calls |-> calls[k].file_path] = EligiblePathsBefore(idx)
        /\ (pc = "done" /\ EligibleIdx # {}) =>
              /\ idx = Len(fs.entries) + 1
              /\ returned = ConcatRets(calls)
              /\ (returned = <<>>) <=> (\A k \in DOMAIN calls : calls[k].ret = <<>>)

\* a step of the walk goes on to the next file or, after the last file,
\* returns
C10_Step ==
    pc = "walk" =>
        \/ pc' = "walk" /\ idx' = idx + 1
        \/ pc' = "done" /\ idx > Len(fs.entries) /\ idx' = idx

\* C10: a single bad file never aborts the scan of a directory: whatever the
\* earlier files produced, the scan goes on file by file until it returns,
\* every eligible file of the subtree is handed to check_image_integrity
\* exactly once, in discovery order, and the returned list is the
\* concatenation of the per-file results (empty exactly when every eligible
\* file passed).  Each step advancing idx or returning, the return is reached
\* after at most Len(fs.entries) + 1 steps of the walk.
C10_ScanNeverAborts == []C10_Progress /\ [][C10_Step]_vars

\* a finished scan in which the first file failed the size query and the
\* second was still checked
C10_Witness ==
    /\ pc = "done"
    /\ fs.kind = "dir"
    /\ Len(calls) = 2
    /\ calls[1].size < 0
    /\ calls[1].ret[1].issue_type = "Unknown Error"
    /\ Len(returned) >= 1

====
